---------------------------- MODULE Spec2Model ----------------------------
(***************************************************************************)
(* The MCP notes server (src/src/notes_server.py): an in-memory note store *)
(* (notes_storage) behind five request handlers.                           *)
(*                                                                         *)
(* A Python str is modelled as the sequence of its characters, so that     *)
(* formatting (f-strings, "\n".join), prefix tests and slicing are         *)
(* computed and not assumed.  A Python dict is modelled as the sequence of *)
(* its items in insertion order, which is the order .keys() enumerates.    *)
(***************************************************************************)
EXTENDS Integers, Sequences, FiniteSets, TLC

(***************************************************************************)
(* String literals of the source, character by character.                  *)
(***************************************************************************)
\* notes_storage key (line 37): "welcome"
Id_welcome ==
  <<"w","e","l","c","o","m","e">>

\* notes_storage value (line 37): "Welcome to the MCP Notes Server! This is your first note."
Body_welcome ==
  <<"W","e","l","c","o","m","e"," ","t","o"," ","t","h","e"," ","M","C","P"," ","N","o","t","e",
    "s"," ","S","e","r","v","e","r","!"," ","T","h","i","s"," ","i","s"," ","y","o","u","r"," ",
    "f","i","r","s","t"," ","n","o","t","e",".">>

\* notes_storage key (line 38): "meeting-notes"
Id_meeting_notes ==
  <<"m","e","e","t","i","n","g","-","n","o","t","e","s">>

\* notes_storage value (line 38): "Team Meeting - June 10, 2025\n- Discussed Q2 goals\n- New project..."
Body_meeting_notes ==
  <<"T","e","a","m"," ","M","e","e","t","i","n","g"," ","-"," ","J","u","n","e"," ","1","0",",",
    " ","2","0","2","5","\n","-"," ","D","i","s","c","u","s","s","e","d"," ","Q","2"," ","g",
    "o","a","l","s","\n","-"," ","N","e","w"," ","p","r","o","j","e","c","t"," ","t","i","m",
    "e","l","i","n","e",":"," ","3"," ","m","o","n","t","h","s","\n","-"," ","B","u","d","g",
    "e","t"," ","a","p","p","r","o","v","e","d",":"," ","$","5","0",",","0","0","0","\n","-",
    " ","N","e","x","t"," ","m","e","e","t","i","n","g",":"," ","J","u","n","e"," ","1","7","t",
    "h">>

\* notes_storage key (line 43): "todo-list"
Id_todo_list ==
  <<"t","o","d","o","-","l","i","s","t">>

\* notes_storage value (line 43): "Daily Tasks:\n1. Review MCP server implementation\n2. Test Claude..."
Body_todo_list ==
  <<"D","a","i","l","y"," ","T","a","s","k","s",":","\n","1","."," ","R","e","v","i","e","w",
    " ","M","C","P"," ","s","e","r","v","e","r"," ","i","m","p","l","e","m","e","n","t","a","t",
    "i","o","n","\n","2","."," ","T","e","s","t"," ","C","l","a","u","d","e"," ","D","e","s",
    "k","t","o","p"," ","i","n","t","e","g","r","a","t","i","o","n","\n","3","."," ","A","d",
    "d"," ","e","r","r","o","r"," ","h","a","n","d","l","i","n","g","\n","4","."," ","W","r",
    "i","t","e"," ","d","o","c","u","m","e","n","t","a","t","i","o","n","\n","5","."," ","D",
    "e","p","l","o","y"," ","t","o"," ","p","r","o","d","u","c","t","i","o","n">>

\* notes_storage key (line 49): "project-ideas"
Id_project_ideas ==
  <<"p","r","o","j","e","c","t","-","i","d","e","a","s">>

\* notes_storage value (line 49): "Future Project Ideas:\n- Database integration MCP server\n- File ..."
Body_project_ideas ==
  <<"F","u","t","u","r","e"," ","P","r","o","j","e","c","t"," ","I","d","e","a","s",":","\n",
    "-"," ","D","a","t","a","b","a","s","e"," ","i","n","t","e","g","r","a","t","i","o","n"," ",
    "M","C","P"," ","s","e","r","v","e","r","\n","-"," ","F","i","l","e"," ","s","y","s","t",
    "e","m"," ","b","r","o","w","s","e","r"," ","M","C","P"," ","s","e","r","v","e","r","\n",
    "-"," ","A","P","I"," ","c","l","i","e","n","t"," ","M","C","P"," ","s","e","r","v","e","r",
    "\n","-"," ","C","a","l","e","n","d","a","r"," ","i","n","t","e","g","r","a","t","i","o",
    "n","\n","-"," ","T","a","s","k"," ","m","a","n","a","g","e","m","e","n","t"," ","s","y",
    "s","t","e","m">>

\* notes_storage key (line 55): "code-snippets"
Id_code_snippets ==
  <<"c","o","d","e","-","s","n","i","p","p","e","t","s">>

\* notes_storage value (line 55): "Useful Code Snippets:\n- Python async/await patterns\n- JSON-RPC ..."
Body_code_snippets ==
  <<"U","s","e","f","u","l"," ","C","o","d","e"," ","S","n","i","p","p","e","t","s",":","\n",
    "-"," ","P","y","t","h","o","n"," ","a","s","y","n","c","/","a","w","a","i","t"," ","p","a",
    "t","t","e","r","n","s","\n","-"," ","J","S","O","N","-","R","P","C"," ","i","m","p","l",
    "e","m","e","n","t","a","t","i","o","n","\n","-"," ","E","r","r","o","r"," ","h","a","n",
    "d","l","i","n","g"," ","b","e","s","t"," ","p","r","a","c","t","i","c","e","s","\n","-",
    " ","T","e","s","t","i","n","g"," ","s","t","r","a","t","e","g","i","e","s">>

\* notes_storage key (line 60): "research-notes"
Id_research_notes ==
  <<"r","e","s","e","a","r","c","h","-","n","o","t","e","s">>

\* notes_storage value (line 60): "MCP Research Notes:\n- Model Context Protocol enables AI to acces..."
Body_research_notes ==
  <<"M","C","P"," ","R","e","s","e","a","r","c","h"," ","N","o","t","e","s",":","\n","-"," ",
    "M","o","d","e","l"," ","C","o","n","t","e","x","t"," ","P","r","o","t","o","c","o","l"," ",
    "e","n","a","b","l","e","s"," ","A","I"," ","t","o"," ","a","c","c","e","s","s"," ","e","x",
    "t","e","r","n","a","l"," ","d","a","t","a","\n","-"," ","S","e","c","u","r","e"," ","c",
    "o","m","m","u","n","i","c","a","t","i","o","n"," ","t","h","r","o","u","g","h"," ","s","t",
    "d","i","o","\n","-"," ","R","e","s","o","u","r","c","e"," ","a","n","d"," ","t","o","o",
    "l","-","b","a","s","e","d"," ","a","r","c","h","i","t","e","c","t","u","r","e","\n","-",
    " ","G","r","o","w","i","n","g"," ","e","c","o","s","y","s","t","e","m"," ","o","f"," ","M",
    "C","P"," ","s","e","r","v","e","r","s">>

\* notes_storage key (line 65): "personal-journal"
Id_personal_journal ==
  <<"p","e","r","s","o","n","a","l","-","j","o","u","r","n","a","l">>

\* notes_storage value (line 65): "Personal Development Log:\nToday I learned about MCP servers and ..."
Body_personal_journal ==
  <<"P","e","r","s","o","n","a","l"," ","D","e","v","e","l","o","p","m","e","n","t"," ","L","o",
    "g",":","\n","T","o","d","a","y"," ","I"," ","l","e","a","r","n","e","d"," ","a","b","o",
    "u","t"," ","M","C","P"," ","s","e","r","v","e","r","s"," ","a","n","d"," ","h","o","w"," ",
    "t","h","e","y"," ","b","r","i","d","g","e"," ","A","I"," ","w","i","t","h"," ","r","e","a",
    "l","-","w","o","r","l","d"," ","d","a","t","a",".","\n","T","h","e"," ","a","r","c","h",
    "i","t","e","c","t","u","r","e"," ","i","s"," ","e","l","e","g","a","n","t"," ","-"," ","r",
    "e","s","o","u","r","c","e","s"," ","f","o","r"," ","d","a","t","a",","," ","t","o","o","l",
    "s"," ","f","o","r"," ","a","c","t","i","o","n","s",".","\n","L","o","o","k","i","n","g",
    " ","f","o","r","w","a","r","d"," ","t","o"," ","b","u","i","l","d","i","n","g"," ","m","o",
    "r","e"," ","c","o","m","p","l","e","x"," ","i","n","t","e","g","r","a","t","i","o","n","s",
    ".">>

\* notes_storage as constructed at import (lines 36-69): an insertion-ordered dict,
\* modelled as the sequence of its items.
notes_storage_initial ==
  <<[key |-> Id_welcome, value |-> Body_welcome],
    [key |-> Id_meeting_notes, value |-> Body_meeting_notes],
    [key |-> Id_todo_list, value |-> Body_todo_list],
    [key |-> Id_project_ideas, value |-> Body_project_ideas],
    [key |-> Id_code_snippets, value |-> Body_code_snippets],
    [key |-> Id_research_notes, value |-> Body_research_notes],
    [key |-> Id_personal_journal, value |-> Body_personal_journal]>>

\* handle_list_resources / handle_read_resource (line 82): "note://"
Lit_note_scheme ==
  <<"n","o","t","e",":","/","/">>

\* handle_list_resources (line 83): "Note: "
Lit_resource_name ==
  <<"N","o","t","e",":"," ">>

\* handle_list_resources (line 84): "A note with ID "
Lit_resource_description ==
  <<"A"," ","n","o","t","e"," ","w","i","t","h"," ","I","D"," ">>

\* handle_list_resources (line 85): "text/plain"
Lit_text_plain ==
  <<"t","e","x","t","/","p","l","a","i","n">>

\* handle_read_resource (line 97): "Unsupported URI scheme: "
Lit_unsupported_scheme ==
  <<"U","n","s","u","p","p","o","r","t","e","d"," ","U","R","I"," ","s","c","h","e","m","e",":",
    " ">>

\* handle_read_resource (line 102): "Note not found: "
Lit_note_not_found ==
  <<"N","o","t","e"," ","n","o","t"," ","f","o","u","n","d",":"," ">>

\* handle_call_tool (line 176): "create_note"
Lit_create_note ==
  <<"c","r","e","a","t","e","_","n","o","t","e">>

\* handle_call_tool (line 194): "get_note"
Lit_get_note ==
  <<"g","e","t","_","n","o","t","e">>

\* handle_call_tool (line 217): "list_notes"
Lit_list_notes ==
  <<"l","i","s","t","_","n","o","t","e","s">>

\* handle_call_tool (line 231): "delete_note"
Lit_delete_note ==
  <<"d","e","l","e","t","e","_","n","o","t","e">>

\* handle_call_tool (line 184): "Error: Both note_id and content are required"
Lit_both_required ==
  <<"E","r","r","o","r",":"," ","B","o","t","h"," ","n","o","t","e","_","i","d"," ","a","n","d",
    " ","c","o","n","t","e","n","t"," ","a","r","e"," ","r","e","q","u","i","r","e","d">>

\* handle_call_tool (line 191): "Note '"
Lit_Note_q ==
  <<"N","o","t","e"," ","'">>

\* handle_call_tool (line 191): "' created successfully"
Lit_q_created ==
  <<"'"," ","c","r","e","a","t","e","d"," ","s","u","c","c","e","s","s","f","u","l","l","y">>

\* handle_call_tool (line 201): "Error: note_id is required"
Lit_id_required ==
  <<"E","r","r","o","r",":"," ","n","o","t","e","_","i","d"," ","i","s"," ","r","e","q","u","i",
    "r","e","d">>

\* handle_call_tool (line 208): "Error: Note '"
Lit_Error_Note_q ==
  <<"E","r","r","o","r",":"," ","N","o","t","e"," ","'">>

\* handle_call_tool (line 208): "' not found"
Lit_q_not_found ==
  <<"'"," ","n","o","t"," ","f","o","u","n","d">>

\* handle_call_tool (line 214): "':\n"
Lit_q_colon_nl ==
  <<"'",":","\n">>

\* handle_call_tool (line 222): "No notes available"
Lit_no_notes ==
  <<"N","o"," ","n","o","t","e","s"," ","a","v","a","i","l","a","b","l","e">>

\* handle_call_tool (line 225): "\n"
Lit_nl ==
  <<"\n">>

\* handle_call_tool (line 225): "- "
Lit_dash ==
  <<"-"," ">>

\* handle_call_tool (line 228): "Available notes:\n"
Lit_available ==
  <<"A","v","a","i","l","a","b","l","e"," ","n","o","t","e","s",":","\n">>

\* handle_call_tool (line 252): "' deleted successfully"
Lit_q_deleted ==
  <<"'"," ","d","e","l","e","t","e","d"," ","s","u","c","c","e","s","s","f","u","l","l","y">>

\* handle_call_tool (line 259): "Error: Unknown tool '"
Lit_unknown_tool ==
  <<"E","r","r","o","r",":"," ","U","n","k","n","o","w","n"," ","t","o","o","l"," ","'">>

\* handle_call_tool (line 259): "'"
Lit_q ==
  <<"'">>

(***************************************************************************)
(* Python values.  The handlers' logger calls write to a file and to       *)
(* stderr only and are left out.                                           *)
(***************************************************************************)
\* None, as returned by arguments.get(key) for a missing key: a value that is
\* no str (its one element is not a character).
None == <<"<None>">>

\* A faulty variant of Not: tests `is None` only, so "" counts as a value.
NotNoneOnly(v) == v = None

\* Python truthiness of an Optional[str]: `not v` is True for None and "".
Not(v) == v = None \/ v = << >>

\* arguments.get(key)
Get(arguments, key) == IF key \in DOMAIN arguments THEN arguments[key] ELSE None

\* A faulty variant of startswith: it leaves the last character of the prefix unchecked.
startswithAllButLast(s, prefix) ==
  /\ Len(s) >= Len(prefix) - 1
  /\ SubSeq(s, 1, Len(prefix) - 1) = SubSeq(prefix, 1, Len(prefix) - 1)

\* s.startswith(prefix)
startswith(s, prefix) ==
  /\ Len(s) >= Len(prefix)
  /\ SubSeq(s, 1, Len(prefix)) = prefix

\* A faulty variant of StripScheme: uri[6:], one character early.
StripSchemeOffByOne(uri) == SubSeq(uri, 7, Len(uri))

\* uri[7:]
StripScheme(uri) == SubSeq(uri, 8, Len(uri))

\* sep.join(parts)
RECURSIVE join(_, _)
join(sep, parts) ==
  IF Len(parts) = 0 THEN << >>
  ELSE IF Len(parts) = 1 THEN parts[1]
  ELSE parts[1] \o sep \o join(sep, Tail(parts))

(***************************************************************************)
(* dict operations on notes_storage.                                       *)
(***************************************************************************)
\* d.keys(), in insertion order
keys(d) == [i \in 1..Len(d) |-> d[i].key]

\* key in d
Contains(d, key) == \E i \in 1..Len(d) : d[i].key = key

\* d[key], for a key that is in d
GetItem(d, key) == d[CHOOSE i \in 1..Len(d) : d[i].key = key].value

\* A faulty variant of SetItem: d.setdefault(key, value), which keeps an existing value.
SetDefault(d, key, value) ==
  IF \E i \in 1..Len(d) : d[i].key = key THEN d ELSE Append(d, [key |-> key, value |-> value])

\* d[key] = value: an existing key keeps its place, a new key goes last
SetItem(d, key, value) ==
  IF Contains(d, key)
  THEN [i \in 1..Len(d) |-> IF d[i].key = key THEN [key |-> key, value |-> value] ELSE d[i]]
  ELSE Append(d, [key |-> key, value |-> value])

\* A faulty variant of DelItem: the deletion is made on a copy and lost.
DelItemOnCopy(d, key) == d

\* A faulty variant of DelItem: it also drops every item inserted after key.
DelItemAndLater(d, key) == SubSeq(d, 1, (CHOOSE i \in 1..Len(d) : d[i].key = key) - 1)

\* del d[key], for a key that is in d
DelItem(d, key) == SelectSeq(d, LAMBDA item : item.key # key)

(***************************************************************************)
(* What a handler hands back to the server library: a returned value, or a *)
(* raised ValueError (which the library turns into an error response).     *)
(***************************************************************************)
Returned(value) == [kind |-> "return", value |-> value]
Raised(message) == [kind |-> "raise", value |-> message]

TextContent(text) == [type |-> "text", text |-> text]

Resource(note_id) ==
  [uri         |-> Lit_note_scheme \o note_id,
   name        |-> Lit_resource_name \o note_id,
   description |-> Lit_resource_description \o note_id,
   mimeType    |-> Lit_text_plain]

\* A tool descriptor.  The schema texts, which the server only hands out and
\* never computes with, are kept as whole strings.
Tool(name, description, properties, required) ==
  [name |-> name, description |-> description,
   inputSchema |-> [type |-> "object", properties |-> properties, required |-> required]]

Property(name, description) == [name |-> name, type |-> "string", description |-> description]

(***************************************************************************)
(* The handlers, as functions of the store and the request.  Each gives    *)
(* the result handed back and the store it leaves.                         *)
(***************************************************************************)
Outcome(result, store) == [result |-> result, store |-> store]

\* handle_list_resources(), lines 74-89
handle_list_resources(store) ==
  Outcome(Returned([i \in 1..Len(store) |-> Resource(keys(store)[i])]), store)

\* handle_read_resource(uri), lines 91-105
handle_read_resource(store, uri) ==
  IF ~startswith(uri, Lit_note_scheme)
  THEN Outcome(Raised(Lit_unsupported_scheme \o uri), store)
  ELSE LET note_id == StripScheme(uri) IN
       IF ~Contains(store, note_id)
       THEN Outcome(Raised(Lit_note_not_found \o note_id), store)
       ELSE Outcome(Returned(GetItem(store, note_id)), store)

\* handle_list_tools(), lines 107-169
handle_list_tools(store) ==
  Outcome(Returned(
    <<Tool(Lit_create_note, "Create a new note with an ID and content",
           <<Property("note_id", "Unique identifier for the note"),
             Property("content", "The content of the note")>>,
           <<"note_id", "content">>),
      Tool(Lit_get_note, "Retrieve a note by its ID",
           <<Property("note_id", "The ID of the note to retrieve")>>, <<"note_id">>),
      Tool(Lit_list_notes, "List all available notes", << >>, << >>),
      Tool(Lit_delete_note, "Delete a note by its ID",
           <<Property("note_id", "The ID of the note to delete")>>, <<"note_id">>)>>),
    store)

\* the create_note branch of handle_call_tool, lines 176-192
create_note(store, arguments) ==
  LET note_id == Get(arguments, "note_id")
      content == Get(arguments, "content")
  IN  IF Not(note_id) \/ Not(content)
      THEN Outcome(Returned(<<TextContent(Lit_both_required)>>), store)
      ELSE Outcome(Returned(<<TextContent(Lit_Note_q \o note_id \o Lit_q_created)>>),
                   SetItem(store, note_id, content))

\* the get_note branch, lines 194-215
get_note(store, arguments) ==
  LET note_id == Get(arguments, "note_id")
  IN  IF Not(note_id)
      THEN Outcome(Returned(<<TextContent(Lit_id_required)>>), store)
      ELSE IF ~Contains(store, note_id)
      THEN Outcome(Returned(<<TextContent(Lit_Error_Note_q \o note_id \o Lit_q_not_found)>>), store)
      ELSE Outcome(Returned(<<TextContent(Lit_Note_q \o note_id \o Lit_q_colon_nl
                                          \o GetItem(store, note_id))>>), store)

\* note_list and the text built from it, lines 225-229
note_list_text(store) ==
  LET note_list == join(Lit_nl, [i \in 1..Len(store) |-> Lit_dash \o keys(store)[i]])
  IN  Lit_available \o note_list

\* the list_notes branch, lines 217-229
list_notes(store) ==
  IF Len(store) = 0
  THEN Outcome(Returned(<<TextContent(Lit_no_notes)>>), store)
  ELSE Outcome(Returned(<<TextContent(note_list_text(store))>>), store)

\* the delete_note branch, lines 231-253
delete_note(store, arguments) ==
  LET note_id == Get(arguments, "note_id")
  IN  IF Not(note_id)
      THEN Outcome(Returned(<<TextContent(Lit_id_required)>>), store)
      ELSE IF ~Contains(store, note_id)
      THEN Outcome(Returned(<<TextContent(Lit_Error_Note_q \o note_id \o Lit_q_not_found)>>), store)
      ELSE Outcome(Returned(<<TextContent(Lit_Note_q \o note_id \o Lit_q_deleted)>>),
                   DelItem(store, note_id))

\* A faulty variant of the else branch: the unknown name is raised, not reported.
unknown_tool_raises(store, name) ==
  [result |-> [kind |-> "raise", value |-> Lit_unknown_tool \o name \o Lit_q], store |-> store]

\* the else branch, lines 255-260
unknown_tool(store, name) ==
  Outcome(Returned(<<TextContent(Lit_unknown_tool \o name \o Lit_q)>>), store)

\* handle_call_tool(name, arguments), lines 171-260
handle_call_tool(store, name, arguments) ==
  IF name = Lit_create_note THEN create_note(store, arguments)
  ELSE IF name = Lit_get_note THEN get_note(store, arguments)
  ELSE IF name = Lit_list_notes THEN list_notes(store)
  ELSE IF name = Lit_delete_note THEN delete_note(store, arguments)
  ELSE unknown_tool(store, name)

(***************************************************************************)
(* The requests a client sends.                                            *)
(***************************************************************************)
\* longest content a client sends
MaxBodyLen == 2

\* ids a client makes up: a plain one, and one that holds a line break
NewId == <<"y">>
MultiLineId == <<"x", "\n", "-", " ", "y">>

SeedIds == {notes_storage_initial[i].key : i \in 1..Len(notes_storage_initial)}

\* note_id values of create_note calls ("" is the empty string)
CreateIds == {<< >>, NewId, MultiLineId, Id_meeting_notes}

\* content values of create_note calls
Contents == {[i \in 1..n |-> "z"] : n \in 0..MaxBodyLen}

\* note_id values of get_note and delete_note calls
LookupIds == {<< >>, NewId, MultiLineId, Id_meeting_notes}

\* the arguments mapping holding the keys in present
Arguments(present, note_id, content) ==
  [k \in present |-> IF k = "note_id" THEN note_id ELSE content]

CreateArguments ==
  {Arguments(present, note_id, content) :
     present \in SUBSET {"note_id", "content"}, note_id \in CreateIds, content \in Contents}

LookupArguments ==
  {Arguments(present, note_id, << >>) : present \in SUBSET {"note_id"}, note_id \in LookupIds}

\* tool names that are none of the four
UnknownNames == {<<"b", "o", "g", "u", "s">>, <<"C">> \o Tail(Lit_create_note)}

\* uris of resources/read requests
Uris ==
  {Lit_note_scheme \o id : id \in {<< >>, NewId, Id_meeting_notes}}
  \cup {NewId, <<"h", "t", "t", "p">> \o SubSeq(Lit_note_scheme, 5, 7) \o NewId,
        SubSeq(Lit_note_scheme, 1, 6) \o NewId}

(***************************************************************************)
(* The server, one request at a time: the library reads a message, runs    *)
(* its handler to the end and writes the response.                         *)
(***************************************************************************)
VARIABLES
  notes_storage,  \* the module-level dict
  request,        \* the request handled last
  result,         \* what its handler handed back
  created,        \* history: ids whose last successful mutation was a create_note
  deleted,        \* history: ids whose last successful mutation was a delete_note
  tasks,          \* requests in flight at once: the handler task of each, in arrival order
  running,        \* the task that holds the event loop (0: none)
  order           \* history: the tasks that returned, in the order they returned

vars == <<notes_storage, request, result, created, deleted, tasks, running, order>>

Request(method, name, arguments, uri) ==
  [method |-> method, name |-> name, arguments |-> arguments, uri |-> uri]

Init ==
  /\ notes_storage = notes_storage_initial
  /\ request = Request("initialize", << >>, << >>, << >>)
  /\ result = Returned(<< >>)
  /\ created = {}
  /\ deleted = {}
  /\ tasks = << >>
  /\ running = 0
  /\ order = << >>

\* the text of a tool result
TextOf(r) == r.value[1].text

\* one request handled: the handler's outcome becomes the response and the store
Handle(req, outcome) ==
  /\ request' = req
  /\ result' = outcome.result
  /\ notes_storage' = outcome.store
  /\ UNCHANGED <<tasks, running, order>>

ListResources ==
  /\ Handle(Request("resources/list", << >>, << >>, << >>), handle_list_resources(notes_storage))
  /\ UNCHANGED <<created, deleted>>

ReadResource ==
  \E uri \in Uris :
    /\ Handle(Request("resources/read", << >>, << >>, uri), handle_read_resource(notes_storage, uri))
    /\ UNCHANGED <<created, deleted>>

ListTools ==
  /\ Handle(Request("tools/list", << >>, << >>, << >>), handle_list_tools(notes_storage))
  /\ UNCHANGED <<created, deleted>>

CallTool(name, arguments) ==
  Handle(Request("tools/call", name, arguments, << >>),
         handle_call_tool(notes_storage, name, arguments))

CallCreateNote ==
  \E arguments \in CreateArguments :
    /\ CallTool(Lit_create_note, arguments)
    /\ LET id == Get(arguments, "note_id")
           ok == TextOf(result') = Lit_Note_q \o id \o Lit_q_created
       IN  /\ created' = IF ok THEN created \cup {id} ELSE created
           /\ deleted' = IF ok THEN deleted \ {id} ELSE deleted

CallGetNote ==
  \E arguments \in LookupArguments :
    /\ CallTool(Lit_get_note, arguments)
    /\ UNCHANGED <<created, deleted>>

CallListNotes ==
  /\ CallTool(Lit_list_notes, << >>)
  /\ UNCHANGED <<created, deleted>>

CallDeleteNote ==
  \E arguments \in LookupArguments :
    /\ CallTool(Lit_delete_note, arguments)
    /\ LET id == Get(arguments, "note_id")
           ok == TextOf(result') = Lit_Note_q \o id \o Lit_q_deleted
       IN  /\ deleted' = IF ok THEN deleted \cup {id} ELSE deleted
           /\ created' = IF ok THEN created \ {id} ELSE created

CallUnknownTool ==
  \E name \in UnknownNames, arguments \in {<< >>, Arguments({"note_id", "content"}, NewId, <<"z">>)} :
    /\ CallTool(name, arguments)
    /\ UNCHANGED <<created, deleted>>

Next ==
  \/ ListResources
  \/ ReadResource
  \/ ListTools
  \/ CallCreateNote
  \/ CallGetNote
  \/ CallListNotes
  \/ CallDeleteNote
  \/ CallUnknownTool

Spec == Init /\ [][Next]_vars


(***************************************************************************)
(* The server with several requests in flight.  server.run (line 275)      *)
(* starts a task per request on one asyncio event loop.  A task that has   *)
(* the loop keeps it until it awaits or returns, and the handlers hold no  *)
(* await.  Here a handler takes its steps one store access at a time: the  *)
(* presence check first, then the access that relies on it.                *)
(***************************************************************************)
\* requests in flight at once
MaxRequests == 3

\* what the client sends while others are in flight
ConcurrentRequests ==
  {Request("tools/call", Lit_create_note, Arguments({"note_id", "content"}, NewId, <<"z">>), << >>),
   Request("tools/call", Lit_get_note, Arguments({"note_id"}, NewId, << >>), << >>),
   Request("tools/call", Lit_delete_note, Arguments({"note_id"}, NewId, << >>), << >>),
   Request("tools/call", Lit_list_notes, << >>, << >>),
   Request("resources/read", << >>, << >>, Lit_note_scheme \o NewId),
   Request("resources/list", << >>, << >>, << >>)}

\* the decorators of lines 74, 91, 107 and 171: the handler of each method
Dispatch(store, req) ==
  IF req.method = "resources/list" THEN handle_list_resources(store)
  ELSE IF req.method = "resources/read" THEN handle_read_resource(store, req.uri)
  ELSE IF req.method = "tools/list" THEN handle_list_tools(store)
  ELSE handle_call_tool(store, req.name, req.arguments)

\* The handler's first store access is a check that it passes, with a second
\* access still ahead: lines 204/214, 241/248, 100/105 and 219/225.
PassesCheck(store, req) ==
  IF req.method = "resources/read"
  THEN startswith(req.uri, Lit_note_scheme) /\ Contains(store, StripScheme(req.uri))
  ELSE IF req.method = "tools/call" /\ req.name \in {Lit_get_note, Lit_delete_note}
  THEN ~Not(Get(req.arguments, "note_id")) /\ Contains(store, Get(req.arguments, "note_id"))
  ELSE IF req.method = "tools/call" /\ req.name = Lit_list_notes
  THEN Len(store) # 0
  ELSE FALSE

\* notes_storage[note_id] and del notes_storage[note_id] raise KeyError for a missing key
KeyError == Raised(<<"KeyError">>)

\* The rest of a handler that passed its check, on the store as it is now:
\* lines 214, 248, 105 and 225-229.
SecondAccess(store, req) ==
  IF req.method = "resources/read"
  THEN IF Contains(store, StripScheme(req.uri))
       THEN handle_read_resource(store, req.uri) ELSE Outcome(KeyError, store)
  ELSE IF req.name = Lit_list_notes
  THEN Outcome(Returned(<<TextContent(note_list_text(store))>>), store)
  ELSE IF Contains(store, Get(req.arguments, "note_id"))
       THEN handle_call_tool(store, req.name, req.arguments) ELSE Outcome(KeyError, store)

\* A faulty variant of Yields: an await between the check and the access it guards.
YieldsAfterCheck(pc) == pc = "checked"

\* Whether a handler at pc gives up the event loop: the handlers are
\* coroutines without a single await (lines 74-260), so never.
Yields(pc) == FALSE

\* server.run reads the next request and starts its handler task
Arrive ==
  \E req \in ConcurrentRequests :
    /\ Len(tasks) < MaxRequests
    /\ tasks' = Append(tasks, [request |-> req, pc |-> "start",
                               seen |-> << >>, result |-> Returned(<< >>)])
    /\ UNCHANGED <<notes_storage, running, order, request, result, created, deleted>>

\* the event loop runs task t from its start: to its return, or past its check
Begin(t) ==
  /\ running = 0
  /\ tasks[t].pc = "start"
  /\ LET req == tasks[t].request
         outcome == Dispatch(notes_storage, req)
     IN  IF PassesCheck(notes_storage, req)
         THEN /\ tasks' = [tasks EXCEPT ![t].pc = "checked", ![t].seen = notes_storage]
              /\ running' = IF Yields("checked") THEN 0 ELSE t
              /\ UNCHANGED <<notes_storage, order>>
         ELSE /\ tasks' = [tasks EXCEPT ![t].pc = "done", ![t].result = outcome.result]
              /\ notes_storage' = outcome.store
              /\ running' = 0
              /\ order' = Append(order, t)
  /\ UNCHANGED <<request, result, created, deleted>>

\* the event loop runs task t from its check to its return
Resume(t) ==
  /\ running \in {0, t}
  /\ tasks[t].pc = "checked"
  /\ LET outcome == SecondAccess(notes_storage, tasks[t].request)
     IN  /\ tasks' = [tasks EXCEPT ![t].pc = "done", ![t].result = outcome.result]
         /\ notes_storage' = outcome.store
  /\ running' = 0
  /\ order' = Append(order, t)
  /\ UNCHANGED <<request, result, created, deleted>>

NextConcurrent ==
  \/ Arrive
  \/ \E t \in 1..Len(tasks) : Begin(t)
  \/ \E t \in 1..Len(tasks) : Resume(t)

SpecConcurrent == Init /\ [][NextConcurrent]_vars

(***************************************************************************)
(* Vocabulary of the properties: the store and the texts as a client sees  *)
(* them, stated without the handlers' own helpers.                         *)
(***************************************************************************)
FourNames == {Lit_create_note, Lit_get_note, Lit_list_notes, Lit_delete_note}

IsCall(req, name) == req.method = "tools/call" /\ req.name = name

\* the argument is absent from the mapping, or the empty string
AbsentOrEmpty(arguments, key) == key \notin DOMAIN arguments \/ arguments[key] = << >>

NoteId(req) == req.arguments["note_id"]
Content(req) == req.arguments["content"]

StoreIds(d) == {d[i].key : i \in 1..Len(d)}
Entries(d, id) == {i \in 1..Len(d) : d[i].key = id}
BodyOf(d, id) == d[CHOOSE i \in Entries(d, id) : TRUE].value
OtherItems(d, id) == {d[i] : i \in {j \in 1..Len(d) : d[j].key # id}}

HasPrefix(s, p) == Len(s) >= Len(p) /\ \A i \in 1..Len(p) : s[i] = p[i]
After(s, p) == SubSeq(s, Len(p) + 1, Len(s))

\* the lines of a text: text.split("\n")
RECURSIVE Lines(_)
Lines(text) ==
  IF \A i \in 1..Len(text) : text[i] # "\n" THEN <<text>>
  ELSE LET n == CHOOSE i \in 1..Len(text) :
                  text[i] = "\n" /\ \A j \in 1..(i - 1) : text[j] # "\n"
       IN  <<SubSeq(text, 1, n - 1)>> \o Lines(SubSeq(text, n + 1, Len(text)))

HasLine(text, line) == \E i \in 1..Len(Lines(text)) : Lines(text)[i] = line

Text(t) == [kind |-> "return", value |-> <<[type |-> "text", text |-> t]>>]
IsText(r) == r.kind = "return" /\ Len(r.value) = 1 /\ r.value[1].type = "text"

CreatedText(id) == Lit_Note_q \o id \o Lit_q_created
DeletedText(id) == Lit_Note_q \o id \o Lit_q_deleted
NotFoundText(id) == Lit_Error_Note_q \o id \o Lit_q_not_found
NoteHeader(id) == Lit_Note_q \o id \o Lit_q_colon_nl
ErrorPrefix == <<"E", "r", "r", "o", "r", ":", " ">>

\* the request was a create_note that the server reported as done
CreateDone(req, res) ==
  /\ IsCall(req, Lit_create_note)
  /\ ~AbsentOrEmpty(req.arguments, "note_id")
  /\ res = Text(CreatedText(NoteId(req)))

\* the request was a delete_note that the server reported as done
DeleteDone(req, res) ==
  /\ IsCall(req, Lit_delete_note)
  /\ ~AbsentOrEmpty(req.arguments, "note_id")
  /\ res = Text(DeletedText(NoteId(req)))

(***************************************************************************)
(* C1.  A create_note call whose note_id is absent or empty, or whose      *)
(* content is absent or empty, returns exactly the text                    *)
(* "Error: Both note_id and content are required" and leaves the store as  *)
(* it was (same ids, same bodies, same list_notes result).                 *)
(***************************************************************************)
C1_MissingArgumentGuard ==
  [][(/\ IsCall(request', Lit_create_note)
      /\ \/ AbsentOrEmpty(request'.arguments, "note_id")
         \/ AbsentOrEmpty(request'.arguments, "content"))
     => /\ result' = Text(Lit_both_required)
        /\ notes_storage' = notes_storage
        /\ list_notes(notes_storage').result = list_notes(notes_storage).result]_vars

\* create_note with content "z" and an empty note_id has been refused
C1_Witness ==
  /\ IsCall(request, Lit_create_note)
  /\ DOMAIN request.arguments = {"note_id", "content"}
  /\ NoteId(request) = << >>
  /\ Content(request) = <<"z">>
  /\ result = Text(Lit_both_required)

(***************************************************************************)
(* C2.  After a delete_note(y) reported as done, and until the next        *)
(* create_note of y reported as done, every list_notes result has no       *)
(* "- y" line, every list_resources result has no descriptor with uri      *)
(* "note://y", and every get_note(y) returns "Error: Note 'y' not found".  *)
(***************************************************************************)
C2_DeletedStaysGone ==
  \A y \in deleted :
    /\ IsCall(request, Lit_list_notes) => ~HasLine(result.value[1].text, Lit_dash \o y)
    /\ request.method = "resources/list"
         => \A i \in 1..Len(result.value) : result.value[i].uri # Lit_note_scheme \o y
    /\ (/\ IsCall(request, Lit_get_note)
        /\ ~AbsentOrEmpty(request.arguments, "note_id")
        /\ NoteId(request) = y)
         => result = Text(NotFoundText(y))

(***************************************************************************)
(* C3.  create_note is an upsert: for an id already in the store and a     *)
(* non-empty body b, the call is not rejected, returns                     *)
(* "Note '<id>' created successfully", leaves exactly one entry for the id *)
(* holding b, and a get_note(id) that follows directly returns             *)
(* "Note '<id>':\n" followed by b.                                         *)
(***************************************************************************)
C3_Upsert ==
  [][/\ (/\ IsCall(request', Lit_create_note)
         /\ ~AbsentOrEmpty(request'.arguments, "note_id")
         /\ ~AbsentOrEmpty(request'.arguments, "content")
         /\ NoteId(request') \in StoreIds(notes_storage))
        => /\ result' = Text(CreatedText(NoteId(request')))
           /\ Cardinality(Entries(notes_storage', NoteId(request'))) = 1
           /\ BodyOf(notes_storage', NoteId(request')) = Content(request')
     /\ (/\ CreateDone(request, result)
         /\ IsCall(request', Lit_get_note)
         /\ ~AbsentOrEmpty(request'.arguments, "note_id")
         /\ NoteId(request') = NoteId(request))
        => result' = Text(NoteHeader(NoteId(request)) \o Content(request))]_vars

\* the seeded note "meeting-notes", still second in the store, has just been overwritten
C3_Witness ==
  /\ CreateDone(request, result)
  /\ NoteId(request) = Id_meeting_notes
  /\ Content(request) = <<"z">>
  /\ Len(notes_storage) >= 3
  /\ notes_storage[2] = [key |-> Id_meeting_notes, value |-> <<"z">>]

(***************************************************************************)
(* C4.  Resource/tool symmetry, in every reachable state: for every id in  *)
(* the store, list_resources has a descriptor with uri "note://" + id and  *)
(* read_resource of that uri returns exactly the body that get_note(id)    *)
(* reports after its "Note '<id>':\n" header; list_resources has no        *)
(* descriptor for an id that is not in the store.                          *)
(***************************************************************************)
C4_ResourceToolSymmetry ==
  LET listed == handle_list_resources(notes_storage).result
  IN  /\ listed.kind = "return"
      /\ \A id \in StoreIds(notes_storage) :
           LET uri  == Lit_note_scheme \o id
               read == handle_read_resource(notes_storage, uri).result
               got  == handle_call_tool(notes_storage, Lit_get_note, [note_id |-> id]).result
           IN  /\ \E i \in 1..Len(listed.value) : listed.value[i].uri = uri
               /\ read.kind = "return"
               /\ IsText(got)
               /\ HasPrefix(got.value[1].text, NoteHeader(id))
               /\ read.value = After(got.value[1].text, NoteHeader(id))
      /\ \A i \in 1..Len(listed.value) :
           \E id \in StoreIds(notes_storage) : listed.value[i].uri = Lit_note_scheme \o id
      /\ (request.method = "resources/list" => result = listed)
      /\ (request.method = "resources/read" /\ result.kind = "return")
            => /\ HasPrefix(request.uri, Lit_note_scheme)
               /\ After(request.uri, Lit_note_scheme) \in StoreIds(notes_storage)
               /\ result.value = BodyOf(notes_storage, After(request.uri, Lit_note_scheme))

\* a created note, overwritten once, has been read as a resource
C4_Witness ==
  /\ request.method = "resources/read"
  /\ request.uri = Lit_note_scheme \o NewId
  /\ result = [kind |-> "return", value |-> <<"z", "z">>]
  /\ Len(notes_storage) = 8

\* every id the store can come to hold: the seeded ones and those a client creates
KnownIds == SeedIds \cup (CreateIds \ {<< >>})

(***************************************************************************)
(* C5.  As claimed: in every reachable state an id is in the store if and  *)
(* only if it was created by a create_note call and not deleted by a       *)
(* delete_note call since.                                                 *)
(***************************************************************************)
C5_PresentIffCreated ==
  \A id \in KnownIds : id \in StoreIds(notes_storage) <=> id \in created

(***************************************************************************)
(* C5, amended.  In every reachable state an id is in the store if and     *)
(* only if it was seeded at construction or created by a create_note       *)
(* call, and not deleted by a delete_note call since.                      *)
(***************************************************************************)
C5_PresentIffSeededOrCreated ==
  /\ StoreIds(notes_storage) \subseteq KnownIds
  /\ \A id \in KnownIds :
       id \in StoreIds(notes_storage)
         <=> (id \in created \/ (id \in SeedIds /\ id \notin deleted))

\* a seeded note has been deleted while a created one is in the store
C5_Witness ==
  /\ DeleteDone(request, result)
  /\ NoteId(request) = Id_meeting_notes
  /\ Id_meeting_notes \in deleted
  /\ Id_meeting_notes \notin StoreIds(notes_storage)
  /\ NewId \in created
  /\ NewId \in StoreIds(notes_storage)

(***************************************************************************)
(* C6.  For a tool name that is none of create_note, get_note, list_notes  *)
(* and delete_note, and any arguments, call_tool returns the single text   *)
(* "Error: Unknown tool '<name>'", raises nothing, and leaves the store    *)
(* as it was.                                                              *)
(***************************************************************************)
C6_UnknownTool ==
  [][(request'.method = "tools/call" /\ request'.name \notin FourNames)
     => /\ result' = Text(Lit_unknown_tool \o request'.name \o Lit_q)
        /\ notes_storage' = notes_storage]_vars

\* "bogus" has been called with arguments that would create a note
C6_Witness ==
  /\ request.method = "tools/call"
  /\ request.name = <<"b", "o", "g", "u", "s">>
  /\ DOMAIN request.arguments = {"note_id", "content"}
  /\ result = Text(Lit_unknown_tool \o request.name \o Lit_q)

(***************************************************************************)
(* C7.  read_resource(uri) fails the call, with the unsupported-scheme     *)
(* error when uri does not start with "note://" and with the not-found     *)
(* error when what follows "note://" (possibly nothing) is no id of the    *)
(* store; the store is unchanged.  get_note and delete_note of an id that  *)
(* is not in the store (or of no id at all) do not fail the call: they     *)
(* return a text that begins with "Error: ".                               *)
(***************************************************************************)
C7_ErrorChannels ==
  [][/\ (request'.method = "resources/read" /\ ~HasPrefix(request'.uri, Lit_note_scheme))
        => /\ result' = [kind |-> "raise", value |-> Lit_unsupported_scheme \o request'.uri]
           /\ notes_storage' = notes_storage
     /\ (/\ request'.method = "resources/read"
         /\ HasPrefix(request'.uri, Lit_note_scheme)
         /\ After(request'.uri, Lit_note_scheme) \notin StoreIds(notes_storage))
        => /\ result' = [kind |-> "raise",
                         value |-> Lit_note_not_found \o After(request'.uri, Lit_note_scheme)]
           /\ notes_storage' = notes_storage
     /\ (/\ IsCall(request', Lit_get_note) \/ IsCall(request', Lit_delete_note)
         /\ \/ AbsentOrEmpty(request'.arguments, "note_id")
            \/ NoteId(request') \notin StoreIds(notes_storage))
        => /\ IsText(result')
           /\ HasPrefix(result'.value[1].text, ErrorPrefix)
           /\ notes_storage' = notes_storage]_vars

\* "note://" alone has been read and failed as not found
C7_Witness ==
  /\ request.method = "resources/read"
  /\ request.uri = Lit_note_scheme
  /\ result = [kind |-> "raise", value |-> Lit_note_not_found]

(***************************************************************************)
(* C8.  list_notes returns exactly "No notes available" if and only if the *)
(* store holds no note; otherwise it returns "Available notes:\n" followed *)
(* by exactly one "- <id>" line for each id of the store, none missing or  *)
(* repeated, in the order in which list_resources enumerates the ids.      *)
(***************************************************************************)
C8_ListNotesLines ==
  IsCall(request, Lit_list_notes) =>
    LET text   == result.value[1].text
        listed == handle_list_resources(notes_storage).result.value
    IN  /\ IsText(result)
        /\ text = Lit_no_notes <=> Len(notes_storage) = 0
        /\ Len(notes_storage) # 0
             => /\ HasPrefix(text, Lit_available)
                /\ Lines(After(text, Lit_available))
                     = [i \in 1..Len(listed) |-> Lit_dash \o After(listed[i].uri, Lit_note_scheme)]

(***************************************************************************)
(* C9.  Every operation changes at most one key of the store: a create_note*)
(* reported as done sets only the entry of its id, a delete_note reported  *)
(* as done removes only the entry of its id, every other call leaves the   *)
(* store exactly as it was, and a get_note repeated directly returns the   *)
(* same text.                                                              *)
(***************************************************************************)
C9_SingleKeyFrame ==
  [][/\ CreateDone(request', result')
        => /\ OtherItems(notes_storage', NoteId(request')) = OtherItems(notes_storage, NoteId(request'))
           /\ StoreIds(notes_storage') = StoreIds(notes_storage) \cup {NoteId(request')}
     /\ DeleteDone(request', result')
        => /\ OtherItems(notes_storage', NoteId(request')) = OtherItems(notes_storage, NoteId(request'))
           /\ StoreIds(notes_storage') = StoreIds(notes_storage) \ {NoteId(request')}
           /\ NoteId(request') \in StoreIds(notes_storage)
     /\ (~CreateDone(request', result') /\ ~DeleteDone(request', result'))
        => notes_storage' = notes_storage
     /\ (/\ IsCall(request, Lit_get_note)
         /\ IsCall(request', Lit_get_note)
         /\ request'.arguments = request.arguments)
        => result' = result]_vars

\* the second seeded note has been deleted and the six others are still there
C9_Witness ==
  /\ DeleteDone(request, result)
  /\ NoteId(request) = Id_meeting_notes
  /\ notes_storage = <<notes_storage_initial[1]>> \o SubSeq(notes_storage_initial, 3, 7)

\* the store after the first k returned requests, run one after another
RECURSIVE SerialStore(_)
SerialStore(k) ==
  IF k = 0 THEN notes_storage_initial
  ELSE Dispatch(SerialStore(k - 1), tasks[order[k]].request).store

(***************************************************************************)
(* C10.  With several requests in flight and their handlers interleaved,   *)
(* each handler reads and writes the store as one atomic step: between its *)
(* check and the access that relies on it the store is the one it checked, *)
(* no get_note, delete_note or read_resource passes its presence check and *)
(* then finds the id gone, and the results and the store are those of the  *)
(* same requests run one after another, in the order they returned.        *)
(***************************************************************************)
C10_HandlersAtomic ==
  /\ \A t \in 1..Len(tasks) :
       /\ tasks[t].pc = "checked" => (running = t /\ notes_storage = tasks[t].seen)
       /\ tasks[t].pc = "done"
            => ~(tasks[t].result.kind = "raise" /\ tasks[t].result.value = <<"KeyError">>)
  /\ \A k \in 1..Len(order) :
       /\ tasks[order[k]].pc = "done"
       /\ tasks[order[k]].result = Dispatch(SerialStore(k - 1), tasks[order[k]].request).result
  /\ notes_storage = SerialStore(Len(order))

\* get_note("y") arrived before create_note("y", "z"), ran after it and found the note
C10_Witness ==
  /\ Len(tasks) = 2
  /\ IsCall(tasks[1].request, Lit_get_note)
  /\ IsCall(tasks[2].request, Lit_create_note)
  /\ order = <<2, 1>>
  /\ tasks[1].result = Text(NoteHeader(NewId) \o <<"z">>)

=============================================================================
